---- MODULE Spec2Model ----
(***************************************************************************)
(* A model of minecraft-mcp-server (src/src/bot.ts): the chat message      *)
(* store and read-chat, the fly-to timeout race, the three block scanners, *)
(* move-in-direction, and the connection / process life cycle.             *)
(*                                                                         *)
(* Each subsystem has its own specification (SpecChat, SpecFly, ...) over  *)
(* the one set of variables; a subsystem's actions leave the others'       *)
(* variables unchanged.                                                    *)
(***************************************************************************)
EXTENDS Integers, Sequences, FiniteSets, TLC

VARIABLES
    \* chat
    messages,     \* MessageStore.messages: the stored messages, oldest first
    now,          \* Date.now(): ticks once per addMessage
    added,        \* history: the number of addMessage calls so far
    chatEvents,   \* history: the number of chat events so far
    readCount,    \* the count argument of the last read-chat call
    readReturned, \* what getRecentMessages returned to that call
    readResponse, \* the response of that call
    \* the bot object and the event loop
    botFaulty,    \* whether calls on the bot object may throw
    uncaught,     \* an exception escaped a timer or event callback
    \* fly-to
    fly,          \* per fly-to call: the handler's and its closures' state
    microtasks,   \* the promise reactions queued, run before any timer
    \* move-in-direction and send-chat
    controlState, \* the bot's control states set by setControlState
    move,         \* per move-in-direction call: the handler's state
    sendChat,     \* the last send-chat call
    \* the block scanners
    world,        \* which world bot.blockAt looks into
    scan,         \* the scan call of this run: its arguments and what it did
    \* the process and its connection to the game server
    proc,         \* the process, the bot's connection, stdin, and counters
    \* the MCP server's tools
    registeredTools, \* the names registered with server.tool, in order
    toolCalls        \* history: the tool calls made and where each went

chatVars == <<messages, now, added, chatEvents, readCount, readReturned, readResponse>>
botVars == <<botFaulty, uncaught>>
flyVars == <<fly, microtasks>>
moveVars == <<controlState, move>>

scanVars == <<world, scan>>

toolVars == <<registeredTools, toolCalls>>

vars == <<chatVars, botVars, flyVars, moveVars, sendChat, scanVars, proc, toolVars>>

\* What the actions of one subsystem leave alone.
notChat == <<botVars, flyVars, moveVars, sendChat, scanVars, proc, toolVars>>
notFly == <<chatVars, moveVars, sendChat, scanVars, proc, toolVars>>
notMove == <<chatVars, fly, sendChat, scanVars, proc, toolVars>>
notSendChat == <<chatVars, flyVars, moveVars, scanVars, proc, toolVars>>
notScan == <<chatVars, botVars, flyVars, moveVars, sendChat, proc, toolVars>>
notProc == <<chatVars, botVars, flyVars, moveVars, sendChat, scanVars, toolVars>>
notTools == <<chatVars, botVars, flyVars, moveVars, sendChat, scanVars, proc>>

\* Mutant of Min: the first argument, whichever is smaller.
Min_First(a, b) == a

Min(a, b) == IF a < b THEN a ELSE b
Max(a, b) == IF a > b THEN a ELSE b

(***************************************************************************)
(* Responses (createResponse / createErrorResponse).  The text is kept as  *)
(* a record: its kind, and the payload the claims read.                    *)
(***************************************************************************)
NoResponse == [isError |-> FALSE, prefix |-> "", text |-> "(no response yet)"]

\* { content: [{ type: "text", text }] }
createResponse(text) == [isError |-> FALSE, prefix |-> "", text |-> text]

\* { content: [{ type: "text", text: `Failed: ${errorMessage}` }], isError: true }
createErrorResponse(errorMessage) ==
    [isError |-> TRUE, prefix |-> "Failed: ", text |-> errorMessage]

(***************************************************************************)
(* Chat: MessageStore and the read-chat tool                               *)
(***************************************************************************)
MAX_STORED_MESSAGES == 100

\* Chat events the model lets happen (more than MAX_STORED_MESSAGES).
MaxChat == 103

BotUsername == "LLMBot"
Usernames == {BotUsername, "steve"}

\* The count arguments of read-chat that are tried: <<>> is count omitted,
\* <<c>> is count given as c.
NoCount == <<>>
ReadCounts == {NoCount} \cup {<<c>> : c \in {-3, -1, 0, 1, 2, 10, 99, 100, 101, 150}}

\* The message addMessage stores for the k-th call.
StoredMessage(timestamp, username, content) ==
    [timestamp |-> timestamp, username |-> username, content |-> content]

\* Array.prototype.shift
Shift(arr) == SubSeq(arr, 2, Len(arr))

\* Mutant of addMessage: the push without the shift.
addMessage_NoShift(msgs, message) == Append(msgs, message)

\* Mutant of addMessage: a full store drops its newest entry instead of its oldest.
addMessage_DropNewest(msgs, message) ==
    IF Len(msgs) >= MAX_STORED_MESSAGES
      THEN Append(SubSeq(msgs, 1, Len(msgs) - 1), message)
      ELSE Append(msgs, message)

\* MessageStore.addMessage: push, then shift once if over maxMessages
addMessage(msgs, message) ==
    LET pushed == Append(msgs, message)
    IN  IF Len(pushed) > MAX_STORED_MESSAGES THEN Shift(pushed) ELSE pushed

\* Array.prototype.slice(start) for an integer start: a negative start counts
\* from the end, clamped at 0; a start of 0 (also -0) is the whole array.
Slice(arr, start) ==
    LET len == Len(arr)
        k   == IF start < 0 THEN Max(len + start, 0) ELSE Min(start, len)
    IN  SubSeq(arr, k + 1, len)

\* MessageStore.getRecentMessages(count): this.messages.slice(-count)
getRecentMessages(msgs, count) == Slice(msgs, 0 - count)

\* bot.on('chat'): the bot's own lines are skipped, the others are stored
ChatEvent(username, content) ==
    /\ chatEvents < MaxChat
    /\ chatEvents' = chatEvents + 1
    /\ IF username = BotUsername
         THEN UNCHANGED <<messages, now, added>>
         ELSE /\ messages' = addMessage(messages, StoredMessage(now, username, content))
              /\ now' = now + 1
              /\ added' = added + 1
    /\ readCount' = NoCount
    /\ readReturned' = <<>>
    /\ readResponse' = NoResponse
    /\ UNCHANGED notChat

\* The read-chat handler: count defaults to 10, is capped at
\* MAX_STORED_MESSAGES, and the slice is listed in order.
ReadChat(count) ==
    LET c        == IF count = NoCount THEN 10 ELSE count[1]
        maxCount == Min(c, MAX_STORED_MESSAGES)
        msgs     == getRecentMessages(messages, maxCount)
    IN  /\ readCount' = count
        /\ readReturned' = msgs
        /\ readResponse' = IF Len(msgs) = 0
                             THEN createResponse("No chat messages found")
                             ELSE createResponse("Found chat message(s)")
        /\ UNCHANGED <<messages, now, added, chatEvents, notChat>>

InitChat ==
    /\ messages = <<>>
    /\ now = 1
    /\ added = 0
    /\ chatEvents = 0
    /\ readCount = NoCount
    /\ readReturned = <<>>
    /\ readResponse = NoResponse

NextChat ==
    \/ \E u \in Usernames : ChatEvent(u, "hello")
    \/ \E c \in ReadCounts : ReadChat(c)

(***************************************************************************)
(* The bot object.  Its calls are the library's: flyTo settles when and as *)
(* the library decides.  With botFaulty, any other call on the bot may     *)
(* throw as well; the specifications of the race itself keep it FALSE.     *)
(***************************************************************************)
\* The outcomes of one call on the bot: FALSE returns, TRUE throws.
MayThrow == IF botFaulty THEN BOOLEAN ELSE {FALSE}

(***************************************************************************)
(* fly-to and createCancellableFlightOperation                             *)
(***************************************************************************)
FLIGHT_TIMEOUT_MS == 20000

\* fly-to calls the model lets be made (they may overlap).
MaxFlyCalls == 2
FlyCalls == 1..MaxFlyCalls

Destinations == {<<0, 64, 0>>, <<10, 70, -5>>}

NotAvailableText == "Creative mode is not available. Cannot fly."
SuccessText == "Successfully flew to position (x, y, z)."
TimeoutText == "Flight timed out after 20 seconds. The destination may be unreachable. Current position: (x, y, z)"
CancelledText == "Flight operation cancelled"
FlyToErrorText == "flyTo error"
StopFlyingErrorText == "stopFlying error"
PositionErrorText == "bot.entity.position error"

\* A fly-to call before it is made.
IdleFlyCall ==
    [ pc              |-> "idle",       \* idle, awaiting, done
      creative        |-> FALSE,        \* bot.creative as the call found it
      dest            |-> <<0, 0, 0>>,
      timer           |-> "unset",      \* unset, armed, fired, cleared
      signalAborted   |-> FALSE,        \* controller.signal.aborted
      aborted         |-> FALSE,        \* createCancellableFlightOperation's flag
      flight          |-> "none",       \* bot.creative.flyTo's promise
      operation       |-> "none",       \* createCancellableFlightOperation's promise
      opError         |-> "",           \* what it was rejected with
      outcome         |-> "pending",    \* pending, responded, threw
      response        |-> NoResponse,
      flyToCalls      |-> 0,            \* history: bot.creative.flyTo calls
      stopFlyingCalls |-> 0,            \* history: bot.creative.stopFlying calls
      flightAtTimeout |-> "none",       \* history: flight when the timer fired
      threw           |-> FALSE ]       \* history: a call on the bot threw

\* resolve / reject of the operation's promise: only the first one settles it.
Settle(call, how, err) ==
    IF call.operation = "pending"
      THEN [call EXCEPT !.operation = how, !.opError = err]
      ELSE call

\* The fly-to handler up to its await: the creative check, the controller,
\* the timer, and createCancellableFlightOperation's executor.
flyToStart(call, dest, hasCreative, flyToThrows) ==
    IF ~hasCreative
      THEN [call EXCEPT !.pc = "done", !.dest = dest, !.creative = FALSE,
                        !.outcome = "responded",
                        !.response = createResponse(NotAvailableText)]
      ELSE LET c0 == [call EXCEPT !.pc = "awaiting", !.dest = dest,
                                  !.creative = TRUE,
                                  !.timer = "armed", !.operation = "pending",
                                  !.flyToCalls = @ + 1]
           IN  IF flyToThrows
                 THEN Settle([c0 EXCEPT !.threw = TRUE], "rejected", FlyToErrorText)
                 ELSE [c0 EXCEPT !.flight = "pending"]

\* Mutant of abortListener: the listener stops the flight but never rejects.
abortListener_NoReject(call, stopThrows) ==
    [call EXCEPT !.aborted = TRUE, !.stopFlyingCalls = @ + 1,
                 !.threw = stopThrows]

\* The 'abort' listener of createCancellableFlightOperation.
abortListener(call, stopThrows) ==
    LET c1 == [call EXCEPT !.aborted = TRUE, !.stopFlyingCalls = @ + 1]
    IN  IF stopThrows
          THEN [c1 EXCEPT !.threw = TRUE]
          ELSE Settle(c1, "rejected", CancelledText)

\* The setTimeout callback of fly-to: abort unless already aborted.
flyTimeout(call, stopThrows) ==
    LET c1 == [call EXCEPT !.timer = "fired", !.flightAtTimeout = call.flight]
    IN  IF ~c1.signalAborted
          THEN abortListener([c1 EXCEPT !.signalAborted = TRUE], stopThrows)
          ELSE c1

\* flyTo's .then / .catch callbacks: they settle the operation unless aborted.
flightReaction(call) ==
    IF call.aborted THEN call
    ELSE IF call.flight = "resolved" THEN Settle(call, "resolved", "")
    ELSE Settle(call, "rejected", FlyToErrorText)

\* Mutant of flyFinally: the timer is left armed.
flyFinally_NoClearTimeout(call, stopThrows) ==
    [call EXCEPT !.pc = "done", !.stopFlyingCalls = @ + 1]

\* Mutant of flyFinally: stopFlying is left out.
flyFinally_NoStopFlying(call, stopThrows) ==
    [call EXCEPT !.pc = "done",
                 !.timer = IF @ = "armed" THEN "cleared" ELSE @]

\* The finally block: clearTimeout(timeoutId); bot.creative.stopFlying().
\* A throw in it replaces the handler's result.
flyFinally(call, stopThrows) ==
    LET c1 == [call EXCEPT !.pc = "done",
                           !.timer = IF @ = "armed" THEN "cleared" ELSE @,
                           !.stopFlyingCalls = @ + 1]
    IN  IF stopThrows
          THEN [c1 EXCEPT !.outcome = "threw", !.response = NoResponse,
                          !.threw = TRUE]
          ELSE c1

\* Mutant of flyCatch: the catch block reports the caught error as it is,
\* without looking at controller.signal.aborted.
flyCatch_NoAbortCheck(call, positionThrows) ==
    [call EXCEPT !.outcome = "responded",
                 !.response = createErrorResponse(call.opError)]

\* The catch block of fly-to.
flyCatch(call, positionThrows) ==
    IF call.signalAborted
      THEN IF positionThrows
             THEN [call EXCEPT !.outcome = "threw", !.threw = TRUE]
             ELSE [call EXCEPT !.outcome = "responded",
                               !.response = createErrorResponse(TimeoutText)]
      ELSE [call EXCEPT !.outcome = "responded",
                        !.response = createErrorResponse(call.opError)]

\* The fly-to handler after its await: return, or catch, and then finally.
flyToResume(call, positionThrows, stopThrows) ==
    LET c1 == IF call.operation = "resolved"
                THEN [call EXCEPT !.outcome = "responded",
                                  !.response = createResponse(SuccessText)]
                ELSE flyCatch(call, positionThrows)
    IN  flyFinally(c1, stopThrows)

\* The await continuation is queued when the operation settles.
Queue(old, new, c) ==
    IF old.operation = "pending" /\ new.operation # "pending"
      THEN <<[call |-> c, job |-> "resume"]>>
      ELSE <<>>

Running == ~uncaught

\* A fly-to tool call arrives; hasCreative is whether bot.creative is there.
FlyTo(c, dest, hasCreative) ==
    /\ Running
    /\ fly[c].pc = "idle"
    /\ \E flyToThrows \in MayThrow :
         LET new == flyToStart(fly[c], dest, hasCreative, flyToThrows)
         IN  /\ fly' = [fly EXCEPT ![c] = new]
             /\ microtasks' = microtasks \o
                    (IF new.operation = "rejected"
                       THEN <<[call |-> c, job |-> "resume"]>> ELSE <<>>)
    /\ UNCHANGED <<botVars, notFly>>

\* The library settles flyTo's promise (in a task of its own); its
\* reaction is queued.
FlightSettles(c, how) ==
    /\ Running
    /\ microtasks = <<>>
    /\ fly[c].flight = "pending"
    /\ fly' = [fly EXCEPT ![c].flight = how]
    /\ microtasks' = <<[call |-> c, job |-> "reaction"]>>
    /\ UNCHANGED <<botVars, notFly>>

\* The 20000 ms timer fires: timers run only when no reaction is queued.
FlyTimerFires(c) ==
    /\ Running
    /\ microtasks = <<>>
    /\ fly[c].timer = "armed"
    /\ \E stopThrows \in MayThrow :
         LET new == flyTimeout(fly[c], stopThrows)
         IN  /\ fly' = [fly EXCEPT ![c] = new]
             /\ microtasks' = Queue(fly[c], new, c)
             /\ uncaught' = stopThrows
    /\ UNCHANGED <<botFaulty, notFly>>

\* The first queued reaction runs: flyTo's callbacks ...
RunReaction ==
    /\ Running
    /\ microtasks # <<>>
    /\ Head(microtasks).job = "reaction"
    /\ LET c   == Head(microtasks).call
           new == flightReaction(fly[c])
       IN  /\ fly' = [fly EXCEPT ![c] = new]
           /\ microtasks' = Tail(microtasks) \o Queue(fly[c], new, c)
    /\ UNCHANGED <<botVars, notFly>>

\* ... or the handler's continuation after its await.
RunResume ==
    /\ Running
    /\ microtasks # <<>>
    /\ Head(microtasks).job = "resume"
    /\ LET c == Head(microtasks).call
       IN  \E positionThrows \in MayThrow, stopThrows \in MayThrow :
             fly' = [fly EXCEPT ![c] = flyToResume(fly[c], positionThrows, stopThrows)]
    /\ microtasks' = Tail(microtasks)
    /\ UNCHANGED <<botVars, notFly>>

InitBot == uncaught = FALSE

InitFly ==
    /\ fly = [c \in FlyCalls |-> IdleFlyCall]
    /\ microtasks = <<>>

NextFly ==
    \/ \E c \in FlyCalls, dest \in Destinations, hasCreative \in BOOLEAN :
         FlyTo(c, dest, hasCreative)
    \/ \E c \in FlyCalls, how \in {"resolved", "rejected"} : FlightSettles(c, how)
    \/ \E c \in FlyCalls : FlyTimerFires(c)
    \/ RunReaction
    \/ RunResume

(***************************************************************************)
(* move-in-direction                                                       *)
(***************************************************************************)
Direction == {"forward", "back", "left", "right"}

\* move-in-direction calls the model lets be made (they may overlap).
MaxMoveCalls == 2
MoveCalls == 1..MaxMoveCalls

\* The durations tried; 1000 is the default.
Durations == {250, 1000}

SetControlStateErrorText == "setControlState error"

\* A move-in-direction call before it is made.
IdleMoveCall ==
    [ pc        |-> "idle",          \* idle, waiting, done
      direction |-> "forward",
      duration  |-> 1000,
      outcome   |-> "pending",       \* pending, responded, threw
      response  |-> NoResponse,
      releases  |-> 0,               \* history: setControlState(direction, false) calls
      threw     |-> FALSE ]          \* history: a call on the bot threw

\* Mutant of setControlState: the control is set, whatever the state passed.
setControlState_AlwaysOn(cs, control, state, throws) ==
    IF throws THEN cs ELSE [cs EXCEPT ![control] = TRUE]

\* bot.setControlState(control, state); a call that throws sets nothing.
setControlState(cs, control, state, throws) ==
    IF throws THEN cs ELSE [cs EXCEPT ![control] = state]

\* The handler's promise executor: press the control and start the timer;
\* if that throws, release the control and answer the error.  A throw in
\* the catch block itself leaves the executor and rejects the promise.
moveStart(call, direction, duration, pressThrows, releaseThrows) ==
    LET c0 == [call EXCEPT !.direction = direction, !.duration = duration]
    IN  IF ~pressThrows
          THEN [c0 EXCEPT !.pc = "waiting"]
          ELSE IF releaseThrows
            THEN [c0 EXCEPT !.pc = "done", !.outcome = "threw",
                            !.releases = @ + 1, !.threw = TRUE]
            ELSE [c0 EXCEPT !.pc = "done", !.outcome = "responded",
                            !.response = createErrorResponse(SetControlStateErrorText),
                            !.releases = @ + 1, !.threw = TRUE]

\* The setTimeout callback: release the control, then resolve.  If the
\* release throws, the callback ends there and the promise is never resolved.
moveTimeout(call, releaseThrows) ==
    IF releaseThrows
      THEN [call EXCEPT !.releases = @ + 1, !.threw = TRUE]
      ELSE [call EXCEPT !.pc = "done", !.outcome = "responded",
                        !.response = createResponse("Moved <direction> for <duration>ms"),
                        !.releases = @ + 1]

\* Calls are numbered in the order they arrive.
ArrivesNext(c) == IF c = 1 THEN TRUE ELSE move[c - 1].pc # "idle"

\* setTimeout's order: a timer set earlier with a delay no longer than this
\* call's fires before it.
NoEarlierTimer(c) ==
    \A b \in MoveCalls :
        (b < c /\ move[b].pc = "waiting") => move[b].duration > move[c].duration

\* A move-in-direction tool call arrives.
MoveInDirection(c, direction, duration) ==
    /\ Running
    /\ ArrivesNext(c)
    /\ move[c].pc = "idle"
    /\ \E pressThrows \in MayThrow, releaseThrows \in MayThrow :
         /\ move' = [move EXCEPT ![c] =
                moveStart(move[c], direction, duration, pressThrows, releaseThrows)]
         /\ controlState' =
                IF pressThrows
                  THEN setControlState(controlState, direction, FALSE, releaseThrows)
                  ELSE setControlState(controlState, direction, TRUE, FALSE)
    /\ UNCHANGED <<botVars, microtasks, notMove>>

\* The duration timer of a call fires.
MoveTimerFires(c) ==
    /\ Running
    /\ microtasks = <<>>
    /\ move[c].pc = "waiting"
    /\ NoEarlierTimer(c)
    /\ \E releaseThrows \in MayThrow :
         /\ move' = [move EXCEPT ![c] = moveTimeout(move[c], releaseThrows)]
         /\ controlState' =
                setControlState(controlState, move[c].direction, FALSE, releaseThrows)
         /\ uncaught' = releaseThrows
    /\ UNCHANGED <<botFaulty, microtasks, notMove>>

InitMove ==
    /\ controlState = [d \in Direction |-> FALSE]
    /\ move = [c \in MoveCalls |-> IdleMoveCall]

NextMove ==
    \/ \E c \in MoveCalls, d \in Direction, ms \in Durations : MoveInDirection(c, d, ms)
    \/ \E c \in MoveCalls : MoveTimerFires(c)

(***************************************************************************)
(* send-chat: the shape of every pass-through tool, one call on the bot in *)
(* a try block whose catch answers createErrorResponse.                    *)
(***************************************************************************)
ChatErrorText == "bot.chat error"

NoSendChat == [outcome |-> "pending", response |-> NoResponse, threw |-> FALSE]

sendChatHandler(chatThrows) ==
    IF chatThrows
      THEN [outcome |-> "responded",
            response |-> createErrorResponse(ChatErrorText), threw |-> TRUE]
      ELSE [outcome |-> "responded",
            response |-> createResponse("Sent message"), threw |-> FALSE]

\* A send-chat tool call arrives.
SendChat ==
    /\ Running
    /\ \E chatThrows \in MayThrow : sendChat' = sendChatHandler(chatThrows)
    /\ UNCHANGED <<botVars, notSendChat>>

InitSendChat == sendChat = NoSendChat

(***************************************************************************)
(* The block scanners: get-blocks-in-area, get-blocks-in-radius,           *)
(* scan-layers                                                             *)
(***************************************************************************)
MAX_VOLUME == 10000
MAX_RADIUS == 32
LAYER_MAX_RADIUS == 32

\* bot.blockAt's null: the block is not loaded.
Null == "(null)"

\* The worlds tried are 0..MaxWorld: nothing loaded, stone everywhere, and
\* patterns of unloaded cells, stone, dirt and air.
MaxWorld == 3
Worlds == 0..MaxWorld
Palette == <<Null, "stone", "dirt", "air">>

\* bot.blockAt(pos): the name of the block at pos, or Null.
blockAt(w, pos) ==
    CASE w = 0 -> Null
      [] w = 1 -> "stone"
      [] OTHER -> Palette[((pos[1] + 2 * pos[2] + 3 * pos[3] + w) % 4) + 1]

\* filterType left out.
Undefined == "(undefined)"

\* `filterType && ...`: undefined and the empty string are falsy.
Truthy(filterType) == filterType # Undefined /\ filterType # ""

\* Always TRUE.  The loops below test it on their accumulator so that TLC
\* evaluates each iteration's result before it starts the next one.
Evaluated(acc) == acc = acc

EmptyScan == [lookups |-> <<>>, blockMap |-> <<>>, detailedBlocks |-> <<>>]

\* Mutant of MapPush: every block replaces its type's list instead of joining it.
MapPush_Overwrite(blockMap, name, blockInfo) ==
    LET at == {i \in 1..Len(blockMap) : blockMap[i].name = name}
    IN  IF at = {}
          THEN Append(blockMap, [name |-> name, infos |-> <<blockInfo>>])
          ELSE LET i == CHOOSE i \in at : TRUE
               IN  [blockMap EXCEPT ![i].infos = <<blockInfo>>]

\* blockMap.has / set / get(...).push: a Map keeps its keys in insertion order.
MapPush(blockMap, name, blockInfo) ==
    LET at == {i \in 1..Len(blockMap) : blockMap[i].name = name}
    IN  IF at = {}
          THEN Append(blockMap, [name |-> name, infos |-> <<blockInfo>>])
          ELSE LET i == CHOOSE i \in at : TRUE
               IN  [blockMap EXCEPT ![i].infos = Append(@, blockInfo)]

\* maxBlocks is a number (z.number()), not necessarily whole: the model
\* keeps it in tenths, so that 2.5 is 25.
Tenths(n) == 10 * n

\* Mutant of belowMaxBlocks: <= for <.
belowMaxBlocks_Inclusive(length, maxBlocks) == Tenths(length) <= maxBlocks

\* detailedBlocks.length < maxBlocks
belowMaxBlocks(length, maxBlocks) == Tenths(length) < maxBlocks

\* The body of the innermost loop from the blockAt call on: the lookup, the
\* two `continue`s, the grouping and the collection of detailed blocks.
scanCell(acc, w, a, blockInfo) ==
    LET block  == blockAt(w, blockInfo.position)
        looked == [acc EXCEPT !.lookups = Append(@, blockInfo.position)]
    IN  IF block = Null THEN looked
        ELSE IF Truthy(a.filterType) /\ block # a.filterType THEN looked
        ELSE LET info == [blockInfo EXCEPT !.name = block]
             IN  [looked EXCEPT
                    !.blockMap = MapPush(@, block, info),
                    !.detailedBlocks =
                        IF a.includeProperties /\ belowMaxBlocks(Len(@), a.maxBlocks)
                          THEN Append(@, info) ELSE @]

\* Array.prototype.sort with a comparator a, b |-> Key(a) - Key(b): stable,
\* so each element goes after the smaller keys and the equal keys before it.
StableSortBy(arr, Key(_)) ==
    LET n == Len(arr)
        Place(i) == 1 + Cardinality({j \in 1..n :
                        \/ Key(arr[j]) < Key(arr[i])
                        \/ Key(arr[j]) = Key(arr[i]) /\ j < i})
    IN  [p \in 1..n |-> arr[CHOOSE i \in 1..n : Place(i) = p]]

\* Mutant of sortEntries: the comparator the other way round.
sortEntries_Ascending(blockMap) ==
    StableSortBy(blockMap, LAMBDA e : Len(e.infos))

\* Array.from(blockMap.entries()).sort((a, b) => b[1].length - a[1].length)
sortEntries(blockMap) ==
    StableSortBy(blockMap, LAMBDA e : 0 - Len(e.infos))

\* Mutant of sortByDistance: the detailed blocks are left in scan order.
sortByDistance_Unsorted(detailedBlocks) == detailedBlocks

\* detailedBlocks.sort((a, b) => a.distance - b.distance); the model keeps
\* the squared distance, which orders the blocks as the distance does.
sortByDistance(detailedBlocks) ==
    StableSortBy(detailedBlocks, LAMBDA b : b.distSq)

\* What a scan call leaves: its arguments, its response, the positions it
\* passed to bot.blockAt in order, the type list as printed and the
\* detailed blocks as printed.
ScanResult(tool, a, text, acc, entries, detailed) ==
    [ tool           |-> tool,
      args           |-> a,
      response       |-> createResponse(text),
      lookups        |-> acc.lookups,
      blockMap       |-> acc.blockMap,
      sortedEntries  |-> entries,
      detailedBlocks |-> detailed ]

\* The part after the loops: the 'no blocks' answers, the sorted type list
\* and, if asked for and there are any, the detailed blocks.
scanOutput(tool, a, acc) ==
    IF Len(acc.blockMap) = 0
      THEN ScanResult(tool, a,
                      IF Truthy(a.filterType) THEN "No blocks of type found"
                                              ELSE "No blocks found",
                      acc, <<>>, <<>>)
      ELSE ScanResult(tool, a, "Found different block types", acc,
                      sortEntries(acc.blockMap),
                      IF a.includeProperties /\ Len(acc.detailedBlocks) > 0
                        THEN IF tool = "area" THEN acc.detailedBlocks
                                              ELSE sortByDistance(acc.detailedBlocks)
                        ELSE <<>>)

\* ---- get-blocks-in-area ----

\* Mutant of volumeSize: the extents without their + 1.
volumeSize_NoPlusOne(minX, maxX, minY, maxY, minZ, maxZ) ==
    (maxX - minX) * (maxY - minY) * (maxZ - minZ)

\* (maxX - minX + 1) * (maxY - minY + 1) * (maxZ - minZ + 1)
volumeSize(minX, maxX, minY, maxY, minZ, maxZ) ==
    (maxX - minX + 1) * (maxY - minY + 1) * (maxZ - minZ + 1)

RECURSIVE areaLoopZ(_, _, _, _, _, _, _)
areaLoopZ(acc, w, a, x, y, z, maxZ) ==
    IF z <= maxZ /\ Evaluated(acc)
      THEN areaLoopZ(scanCell(acc, w, a, [position |-> <<x, y, z>>, name |-> Null]),
                     w, a, x, y, z + 1, maxZ)
      ELSE acc

RECURSIVE areaLoopY(_, _, _, _, _, _, _, _)
areaLoopY(acc, w, a, x, y, maxY, minZ, maxZ) ==
    IF y <= maxY /\ Evaluated(acc)
      THEN areaLoopY(areaLoopZ(acc, w, a, x, y, minZ, maxZ),
                     w, a, x, y + 1, maxY, minZ, maxZ)
      ELSE acc

RECURSIVE areaLoopX(_, _, _, _, _, _, _, _, _)
areaLoopX(acc, w, a, x, maxX, minY, maxY, minZ, maxZ) ==
    IF x <= maxX /\ Evaluated(acc)
      THEN areaLoopX(areaLoopY(acc, w, a, x, minY, maxY, minZ, maxZ),
                     w, a, x + 1, maxX, minY, maxY, minZ, maxZ)
      ELSE acc

\* The get-blocks-in-area handler.
getBlocksInArea(w, a) ==
    LET minX == Min(a.x1, a.x2)
        maxX == Max(a.x1, a.x2)
        minY == Min(a.y1, a.y2)
        maxY == Max(a.y1, a.y2)
        minZ == Min(a.z1, a.z2)
        maxZ == Max(a.z1, a.z2)
    IN  IF volumeSize(minX, maxX, minY, maxY, minZ, maxZ) > MAX_VOLUME
          THEN ScanResult("area", a, "Area too large", EmptyScan, <<>>, <<>>)
          ELSE scanOutput("area", a,
                   areaLoopX(EmptyScan, w, a, minX, maxX, minY, maxY, minZ, maxZ))

\* ---- get-blocks-in-radius ----

\* Mutant of distanceExceeds: cells at exactly the radius are left out.
distanceExceeds_AtRadius(distSq, radius) ==
    radius < 0 \/ distSq >= radius * radius

\* `distance > radius` for pos.distanceTo(center) = sqrt(distSq): with whole
\* numbers, the root exceeds a radius >= 0 exactly when distSq exceeds its
\* square, and exceeds every radius below 0.
distanceExceeds(distSq, radius) ==
    radius < 0 \/ distSq > radius * radius

\* radius > MAX_RADIUS in get-blocks-in-radius
radiusTooLarge(radius) == radius > MAX_RADIUS

RECURSIVE radiusLoopZ(_, _, _, _, _, _)
radiusLoopZ(acc, w, a, dx, dy, dz) ==
    IF dz <= a.radius /\ Evaluated(acc)
      THEN LET distSq == dx * dx + dy * dy + dz * dz
               next == IF distanceExceeds(distSq, a.radius) THEN acc
                       ELSE scanCell(acc, w, a,
                                [position |-> <<a.x + dx, a.y + dy, a.z + dz>>,
                                 name |-> Null, distSq |-> distSq])
           IN  radiusLoopZ(next, w, a, dx, dy, dz + 1)
      ELSE acc

RECURSIVE radiusLoopY(_, _, _, _, _)
radiusLoopY(acc, w, a, dx, dy) ==
    IF dy <= a.radius /\ Evaluated(acc)
      THEN radiusLoopY(radiusLoopZ(acc, w, a, dx, dy, 0 - a.radius), w, a, dx, dy + 1)
      ELSE acc

RECURSIVE radiusLoopX(_, _, _, _)
radiusLoopX(acc, w, a, dx) ==
    IF dx <= a.radius /\ Evaluated(acc)
      THEN radiusLoopX(radiusLoopY(acc, w, a, dx, 0 - a.radius), w, a, dx + 1)
      ELSE acc

\* The get-blocks-in-radius handler.
getBlocksInRadius(w, a) ==
    IF radiusTooLarge(a.radius)
      THEN ScanResult("radius", a, "Radius too large", EmptyScan, <<>>, <<>>)
      ELSE scanOutput("radius", a, radiusLoopX(EmptyScan, w, a, 0 - a.radius))

\* ---- scan-layers ----

\* Mutant of layerRadiusTooLarge: the cap off by one.
layerRadiusTooLarge_OffByOne(radius) == radius > LAYER_MAX_RADIUS + 1

\* radius > MAX_RADIUS in scan-layers
layerRadiusTooLarge(radius) == radius > LAYER_MAX_RADIUS

RECURSIVE layerLoopZ(_, _, _, _, _)
layerLoopZ(acc, w, a, dx, dz) ==
    IF dz <= a.radius /\ Evaluated(acc)
      THEN LET distSq == dx * dx + dz * dz
               next == IF distanceExceeds(distSq, a.radius) THEN acc
                       ELSE scanCell(acc, w, a,
                                [position |-> <<a.centerX + dx, a.yLevel, a.centerZ + dz>>,
                                 name |-> Null, distSq |-> distSq])
           IN  layerLoopZ(next, w, a, dx, dz + 1)
      ELSE acc

RECURSIVE layerLoopX(_, _, _, _)
layerLoopX(acc, w, a, dx) ==
    IF dx <= a.radius /\ Evaluated(acc)
      THEN layerLoopX(layerLoopZ(acc, w, a, dx, 0 - a.radius), w, a, dx + 1)
      ELSE acc

\* The scan-layers handler.
scanLayers(w, a) ==
    IF layerRadiusTooLarge(a.radius)
      THEN ScanResult("layers", a, "Radius too large", EmptyScan, <<>>, <<>>)
      ELSE scanOutput("layers", a, layerLoopX(EmptyScan, w, a, 0 - a.radius))

\* ---- the calls tried ----

Filters == {Undefined, "", "stone", "gold"}
\* maxBlocks tried: -1, 0, 2, 2.5 and the default 50.
MaxBlocksTried == {Tenths(-1), Tenths(0), Tenths(2), 25, Tenths(50)}

\* The options of a scan call, and the schema's defaults.
ScanOptions ==
    [filterType : Filters, includeProperties : BOOLEAN, maxBlocks : MaxBlocksTried]
DefaultOptions ==
    {[filterType |-> Undefined, includeProperties |-> FALSE, maxBlocks |-> Tenths(50)]}

Corners(c1, c2, o) ==
    [x1 |-> c1[1], y1 |-> c1[2], z1 |-> c1[3],
     x2 |-> c2[1], y2 |-> c2[2], z2 |-> c2[3],
     filterType |-> o.filterType, includeProperties |-> o.includeProperties,
     maxBlocks |-> o.maxBlocks]

\* Small boxes around the origin with every option, and boxes at the cap
\* (25 x 20 x 20 = 10000 cells, and one cell layer more) with the defaults.
SmallCorners == (-1..1) \X (0..1) \X (-1..0)
BigCorners ==
    {<<<<24, 0, 19>>, <<0, 19, 0>>>>,
     <<<<0, 0, 0>>, <<25, 19, 19>>>>, <<<<0, 20, 0>>, <<24, 0, 19>>>>,
     <<<<-50, -50, -50>>, <<50, 50, 50>>>>}
AreaCalls ==
    {Corners(c1, c2, o) : c1 \in SmallCorners, c2 \in SmallCorners, o \in ScanOptions}
    \cup {Corners(b[1], b[2], o) : b \in BigCorners, o \in DefaultOptions}

Around(c, radius, o) ==
    [x |-> c[1], y |-> c[2], z |-> c[3], radius |-> radius,
     filterType |-> o.filterType, includeProperties |-> o.includeProperties,
     maxBlocks |-> o.maxBlocks]

Centers == {<<0, 0, 0>>, <<1, -2, 3>>}
SmallRadii == -2..3
RadiusCalls ==
    {Around(c, r, o) : c \in Centers, r \in SmallRadii, o \in ScanOptions}
    \cup {Around(<<0, 0, 0>>, r, o) : r \in {33, 40}, o \in DefaultOptions}

Layer(c, radius, o) ==
    [centerX |-> c[1], yLevel |-> c[2], centerZ |-> c[3], radius |-> radius,
     filterType |-> o.filterType, includeProperties |-> o.includeProperties,
     maxBlocks |-> o.maxBlocks]

LayerCalls ==
    {Layer(c, r, o) : c \in Centers, r \in SmallRadii, o \in ScanOptions}
    \cup {Layer(<<0, 0, 0>>, r, o) : r \in {32, 33, 40}, o \in DefaultOptions}

NoScan ==
    [ tool |-> "none", args |-> <<>>, response |-> NoResponse, lookups |-> <<>>,
      blockMap |-> <<>>, sortedEntries |-> <<>>, detailedBlocks |-> <<>> ]

\* A get-blocks-in-area tool call.
GetBlocksInArea(a) ==
    /\ scan = NoScan
    /\ scan' = getBlocksInArea(world, a)
    /\ UNCHANGED <<world, notScan>>

\* A get-blocks-in-radius tool call.
GetBlocksInRadius(a) ==
    /\ scan = NoScan
    /\ scan' = getBlocksInRadius(world, a)
    /\ UNCHANGED <<world, notScan>>

\* A scan-layers tool call.
ScanLayers(a) ==
    /\ scan = NoScan
    /\ scan' = scanLayers(world, a)
    /\ UNCHANGED <<world, notScan>>

InitScan ==
    /\ world \in Worlds
    /\ scan = NoScan

NextScan ==
    \/ \E a \in AreaCalls : GetBlocksInArea(a)
    \/ \E a \in RadiusCalls : GetBlocksInRadius(a)
    \/ \E a \in LayerCalls : ScanLayers(a)

(***************************************************************************)
(* main, setupBot's event handlers and the process                         *)
(***************************************************************************)

\* Tool calls and bot 'error' events the model counts up to.
MaxToolCalls == 3
MaxBotErrors == 2

\* main is entered: no bot yet, no handler registered.
InitialProc ==
    [ process         |-> "starting",   \* starting, connecting, running, exited
      exitCode        |-> -1,           \* process.exit's argument
      connection      |-> "none",       \* none (no bot), connecting, online, ended
      stdin           |-> "open",       \* open, ended
      kicked          |-> FALSE,        \* history: a 'kicked' event was handled
      quitCalls       |-> 0,            \* history: bot.quit() calls
      errorsLogged    |-> 0,            \* history: 'error' events logged
      answered        |-> 0,            \* history: tool calls answered
      answeredOffline |-> 0 ]           \* ... of them, with the connection ended

\* bot.quit(): ends the connection to the game server.
quit(p) == [p EXCEPT !.connection = "ended", !.quitCalls = @ + 1]

\* process.exit(code)
exit(p, code) == [p EXCEPT !.process = "exited", !.exitCode = code]

\* Mutant of kickedHandler: the handler ends the process as well.
kickedHandler_Exits(p) == exit(quit([p EXCEPT !.kicked = TRUE]), 1)

\* bot.on('kicked'): log the reason and bot.quit().
kickedHandler(p) == quit([p EXCEPT !.kicked = TRUE])

\* process.stdin.on('end'): bot.quit(), log, process.exit(0).
stdinEndHandler(p) == exit(quit([p EXCEPT !.stdin = "ended"]), 0)

\* main's catch block: if (bot) bot.quit(), log, process.exit(1).
mainCatch(p) == exit(IF p.connection # "none" THEN quit(p) ELSE p, 1)

\* The bot exists, its handlers and the stdin handler are registered, and
\* the process has not exited.
Alive == proc.process \in {"connecting", "running"}

\* main up to the await: parseCommandLineArgs, setupBot, createMcpServer,
\* process.stdin.on('end', ...), server.connect(transport) is called.
MainSetup ==
    /\ proc.process = "starting"
    /\ proc' = [proc EXCEPT !.process = "connecting",
                             !.connection = "connecting"]
    /\ UNCHANGED notProc

\* server.connect(transport) returns: the server answers tool calls.
MainConnected ==
    /\ proc.process = "connecting"
    /\ proc' = [proc EXCEPT !.process = "running"]
    /\ UNCHANGED notProc

\* A step of main's try block throws, or server.connect(transport) rejects.
MainFails ==
    /\ proc.process \in {"starting", "connecting"}
    /\ proc' = mainCatch(proc)
    /\ UNCHANGED notProc

\* bot.once('spawn'): the bot is in the game.
BotSpawn ==
    /\ Alive
    /\ proc.connection = "connecting"
    /\ proc' = [proc EXCEPT !.connection = "online"]
    /\ UNCHANGED notProc

\* The game server kicks the bot.
BotKicked ==
    /\ Alive
    /\ proc.connection # "ended"
    /\ proc' = kickedHandler(proc)
    /\ UNCHANGED notProc

\* The connection ends on its own ('end'): no handler is registered for it.
BotEnd ==
    /\ Alive
    /\ proc.connection # "ended"
    /\ proc' = [proc EXCEPT !.connection = "ended"]
    /\ UNCHANGED notProc

\* bot.on('error'): the error is logged.
BotError ==
    /\ Alive
    /\ proc.errorsLogged < MaxBotErrors
    /\ proc' = [proc EXCEPT !.errorsLogged = @ + 1]
    /\ UNCHANGED notProc

\* The MCP client closes stdin.
StdinEnd ==
    /\ Alive
    /\ proc.stdin = "open"
    /\ proc' = stdinEndHandler(proc)
    /\ UNCHANGED notProc

\* A tool call is dispatched to its handler and answered.
ToolCall ==
    /\ proc.process = "running"
    /\ proc.answered < MaxToolCalls
    /\ proc' = [proc EXCEPT
                  !.answered = @ + 1,
                  !.answeredOffline =
                      IF proc.connection = "ended" THEN @ + 1 ELSE @]
    /\ UNCHANGED notProc

InitProc == proc = InitialProc

NextProc ==
    \/ MainSetup
    \/ MainConnected
    \/ MainFails
    \/ BotSpawn
    \/ BotKicked
    \/ BotEnd
    \/ BotError
    \/ StdinEnd
    \/ ToolCall

(***************************************************************************)
(* createMcpServer: the tools registered, and the dispatch of a tool call  *)
(***************************************************************************)

\* The server.tool names of each register...Tools function, in order.
registerPositionTools ==
    <<"get-position", "move-to-position", "look-at", "jump", "move-in-direction">>
registerInventoryTools == <<"list-inventory", "find-item", "equip-item">>
registerEntityTools == <<"find-entity">>
registerChatTools == <<"send-chat", "read-chat">>
registerFlightTools == <<"fly-to">>
registerObservationTools ==
    <<"get-block-at", "get-blocks-in-area", "get-blocks-in-radius", "scan-layers">>
registerGameStateTools == <<"detect-gamemode">>

\* createMcpServer: the register...Tools functions called in its order.
createMcpServer ==
    registerPositionTools \o registerInventoryTools \o registerEntityTools
        \o registerChatTools \o registerFlightTools \o registerObservationTools
        \o registerGameStateTools

\* The commands of the README's 'Available Commands' section.
ReadmeCommands ==
    { "get-position", "move-to-position", "look-at", "jump", "move-in-direction",
      "fly-to",
      "list-inventory", "find-item", "equip-item",
      "place-block", "dig-block", "get-block-info", "find-block",
      "get-block-at", "get-blocks-in-area", "get-blocks-in-radius", "scan-layers",
      "find-entity",
      "send-chat", "read-chat",
      "detect-gamemode" }

\* Tool calls the model lets a client make.
MaxCallsLogged == 2

\* The names a client may call: the registered ones, the README's, and one
\* that is in neither.
ToolNames ==
    {createMcpServer[i] : i \in 1..Len(createMcpServer)}
        \cup ReadmeCommands \cup {"no-such-tool"}

\* The server looks the name up among the registered tools: the call goes
\* to the tool's handler, or is answered 'tool not found'.
dispatch(registered, name) ==
    IF \E i \in 1..Len(registered) : registered[i] = name
      THEN "handler" ELSE "not found"

\* A client calls the tool `name`.
CallTool(name) ==
    /\ Len(toolCalls) < MaxCallsLogged
    /\ toolCalls' = Append(toolCalls,
                           [name |-> name, to |-> dispatch(registeredTools, name)])
    /\ UNCHANGED <<registeredTools, notTools>>

InitTools ==
    /\ registeredTools = createMcpServer
    /\ toolCalls = <<>>

NextTools == \E name \in ToolNames : CallTool(name)

(***************************************************************************)
(* Claims about the chat store                                             *)
(***************************************************************************)

\* C1: after any number of chat events / addMessage calls, also more than
\* 100, the message store holds at most 100 messages.
C1_StoreAtMost100 == Len(messages) <= MAX_STORED_MESSAGES

\* C1 witness: more than 100 messages were added and the store is full.
C1_Witness == added > MAX_STORED_MESSAGES /\ Len(messages) = MAX_STORED_MESSAGES

\* C2: eviction is FIFO: after n addMessage calls the store holds exactly
\* the last min(n, 100) messages added, in arrival order (the k-th message
\* added carries timestamp k), so a call on a full store has removed only
\* the oldest message and moved no other.
C2_FifoLastN ==
    /\ Len(messages) = Min(added, MAX_STORED_MESSAGES)
    /\ \A i \in 1..Len(messages) :
          messages[i] = StoredMessage(added - Len(messages) + i, "steve", "hello")

\* C2 witness: at least two messages have been evicted from a full store.
C2_Witness ==
    /\ added >= MAX_STORED_MESSAGES + 2
    /\ Len(messages) = MAX_STORED_MESSAGES
    /\ messages[1].timestamp = added - MAX_STORED_MESSAGES + 1

\* C8 (as claimed): for every count the schema accepts, read-chat returns
\* at most count and at most 100 messages, the most recent ones in arrival
\* order; with no count, at most 10.  (A count below 0 is read as asking
\* for no message, so that an empty answer to it satisfies the claim.)
C8_ReadAtMostCount ==
    readResponse # NoResponse =>
        LET c == IF readCount = NoCount THEN 10 ELSE readCount[1]
            n == Len(readReturned)
        IN  /\ n <= Max(c, 0)
            /\ n <= MAX_STORED_MESSAGES
            /\ readReturned = SubSeq(messages, Len(messages) - n + 1, Len(messages))

(***************************************************************************)
(* Claims about fly-to                                                     *)
(***************************************************************************)

\* C3: if the 20000 ms timer fires before flyTo settles, the flight is
\* aborted and the call answers isError = true with the timeout text, which
\* is neither the success message nor a library flight error nor the raw
\* 'Flight operation cancelled'.
C3_TimeoutReported ==
    \A c \in FlyCalls :
        (fly[c].flightAtTimeout = "pending" /\ fly[c].pc = "done") =>
            /\ fly[c].signalAborted /\ fly[c].aborted
            /\ fly[c].outcome = "responded"
            /\ fly[c].response = createErrorResponse(TimeoutText)
            /\ fly[c].response.isError
            /\ fly[c].response.text \notin {SuccessText, CancelledText, FlyToErrorText}

\* C3 witness: a call whose timer fired while flyTo was pending has answered.
C3_Witness ==
    \E c \in FlyCalls :
        /\ fly[c].flightAtTimeout = "pending" /\ fly[c].pc = "done"
        /\ fly[c].response.text = TimeoutText

\* C4: a fly-to call made while creative mode is there calls flyTo exactly
\* once and, given only that its timer fires, always comes to answer, also
\* when flyTo never settles.
C4_EveryCallReturns ==
    /\ [](\A c \in FlyCalls :
            (fly[c].creative /\ fly[c].pc # "idle") => fly[c].flyToCalls = 1)
    /\ \A c \in FlyCalls :
         (fly[c].pc = "awaiting") ~>
             (fly[c].pc = "done" /\ fly[c].outcome = "responded")

\* C4 witness: a call has answered although its flyTo is still pending.
C4_Witness ==
    \E c \in FlyCalls :
        /\ fly[c].pc = "done" /\ fly[c].outcome = "responded"
        /\ fly[c].flight = "pending" /\ fly[c].flyToCalls = 1

\* C13: the race of fly-to has one winner in every interleaving of flyTo's
\* settlement and the timer: flyTo resolved first, the answer is the success
\* message; flyTo rejected first, the library's error and not the timeout
\* message; the timer first, the timeout message, and a settlement of flyTo
\* after the abort changes nothing; and once the call has answered its
\* timer is cleared, so no abort happens afterwards.
C13_SingleWinner ==
    /\ [](\A c \in FlyCalls :
            (fly[c].creative /\ fly[c].pc = "done") =>
               /\ fly[c].outcome = "responded"
               /\ fly[c].timer # "armed"
               /\ fly[c].flightAtTimeout = "pending" =>
                      fly[c].response = createErrorResponse(TimeoutText)
               /\ (fly[c].flightAtTimeout # "pending" /\ fly[c].flight = "resolved") =>
                      fly[c].response = createResponse(SuccessText)
               /\ (fly[c].flightAtTimeout # "pending" /\ fly[c].flight = "rejected") =>
                      /\ fly[c].response = createErrorResponse(FlyToErrorText)
                      /\ fly[c].response.text # TimeoutText)
    /\ [][\A c \in FlyCalls :
            /\ fly[c].aborted =>
                  /\ fly'[c].operation = fly[c].operation
                  /\ fly'[c].opError = fly[c].opError
            /\ fly[c].pc = "done" =>
                  /\ fly'[c].response = fly[c].response
                  /\ fly'[c].outcome = fly[c].outcome
                  /\ fly'[c].signalAborted = fly[c].signalAborted
                  /\ fly'[c].aborted = fly[c].aborted
                  /\ fly'[c].stopFlyingCalls = fly[c].stopFlyingCalls]_vars

\* C13 witness: flyTo resolved after the abort, and the call's answer is
\* the timeout message all the same.
C13_Witness ==
    \E c \in FlyCalls :
        /\ fly[c].pc = "done"
        /\ fly[c].flightAtTimeout = "pending" /\ fly[c].flight = "resolved"
        /\ fly[c].response = createErrorResponse(TimeoutText)

\* C14: a fly-to call with creative mode there has called stopFlying at
\* least once when it answers, whether with success, the library's error or
\* the timeout; without creative mode it answers the non-error 'Creative
\* mode is not available' with no timer started and neither flyTo nor
\* stopFlying called.
C14_StopFlyingBeforeResponse ==
    \A c \in FlyCalls :
        fly[c].pc = "done" =>
            IF fly[c].creative
              THEN /\ fly[c].stopFlyingCalls >= 1
                   /\ fly[c].response.text \in {SuccessText, FlyToErrorText, TimeoutText}
              ELSE /\ fly[c].response = createResponse(NotAvailableText)
                   /\ ~fly[c].response.isError
                   /\ fly[c].timer = "unset"
                   /\ fly[c].flyToCalls = 0
                   /\ fly[c].stopFlyingCalls = 0

\* C14 witness: one call answered success after a single stopFlying, and
\* another one found no creative mode.
C14_Witness ==
    \E c, d \in FlyCalls :
        /\ fly[c].pc = "done" /\ fly[c].creative
        /\ fly[c].response.text = SuccessText /\ fly[c].stopFlyingCalls = 1
        /\ fly[d].pc = "done" /\ ~fly[d].creative

\* C5 (as claimed): in every tool handler, if a call on the bot made during
\* the handler (also one in a catch or finally block, or in a timer callback
\* the response waits for) throws, the call still answers isError = true
\* with 'Failed: ' and the message: no exception reaches the caller, and no
\* call is left unanswered by an exception that escaped a callback.
C5_EveryFailureAnswered ==
    LET Answered(call) ==
            /\ call.outcome = "responded"
            /\ call.response.isError
            /\ call.response.prefix = "Failed: "
    IN  /\ ~uncaught
        /\ \A c \in FlyCalls : (fly[c].threw /\ fly[c].pc = "done") => Answered(fly[c])
        /\ \A c \in MoveCalls : (move[c].threw /\ move[c].pc = "done") => Answered(move[c])
        /\ sendChat.threw => Answered(sendChat)

(***************************************************************************)
(* Claims about move-in-direction                                          *)
(***************************************************************************)

\* C19: a move-in-direction call sets its direction's control state to true
\* when it starts and back to false exactly once, when its timer fires; the
\* 'Moved ...' response comes only after that release, never while the
\* control the call pressed is still true.  (While the call is the only one
\* made, its control stays true until then.)
C19_ReleaseThenRespond ==
    /\ [](\A c \in MoveCalls :
            /\ move[c].pc = "waiting" =>
                  /\ move[c].releases = 0 /\ move[c].outcome = "pending"
                  /\ (\A b \in MoveCalls \ {c} : move[b].pc = "idle") =>
                        controlState[move[c].direction] = TRUE
            /\ move[c].pc = "done" =>
                  /\ move[c].releases = 1
                  /\ move[c].response = createResponse("Moved <direction> for <duration>ms"))
    /\ [][\A c \in MoveCalls :
            /\ (move[c].pc = "idle" /\ move'[c].pc # "idle") =>
                  /\ move'[c].pc = "waiting"
                  /\ controlState'[move'[c].direction] = TRUE
            /\ (move[c].pc = "waiting" /\ move'[c].pc # "waiting") =>
                  /\ move'[c].pc = "done" /\ move'[c].outcome = "responded"
                  /\ controlState'[move[c].direction] = FALSE]_vars

\* C19 witness: a call alone has answered 'Moved ...' after one release,
\* and its control is off.
C19_Witness ==
    /\ move[1].pc = "done" /\ move[2].pc = "idle"
    /\ move[1].releases = 1
    /\ move[1].response.text = "Moved <direction> for <duration>ms"
    /\ controlState[move[1].direction] = FALSE

\* C20 (as claimed): with overlapping calls for the same direction d,
\* control state d stays true as long as any of them is pending: the timer
\* of one call does not release the control another call still holds.
C20_HeldWhilePending ==
    \A c \in MoveCalls :
        move[c].pc = "waiting" => controlState[move[c].direction] = TRUE

(***************************************************************************)
(* Claims about the block scanners                                         *)
(***************************************************************************)
Abs(n) == IF n < 0 THEN 0 - n ELSE n

\* The cells of the inclusive box between the two corners of an area call.
BoxCells(a) ==
    (Min(a.x1, a.x2)..Max(a.x1, a.x2))
        \X (Min(a.y1, a.y2)..Max(a.y1, a.y2))
        \X (Min(a.z1, a.z2)..Max(a.z1, a.z2))

BoxVolume(a) ==
    (Abs(a.x2 - a.x1) + 1) * (Abs(a.y2 - a.y1) + 1) * (Abs(a.z2 - a.z1) + 1)

Rejected(text) == scan.response = createResponse(text) /\ scan.lookups = <<>>

\* The types a scan's output lists, and the count it prints for a type.
ReportedTypes == {scan.sortedEntries[i].name : i \in 1..Len(scan.sortedEntries)}
ReportedCount(name) ==
    LET at == {i \in 1..Len(scan.sortedEntries) : scan.sortedEntries[i].name = name}
    IN  IF at = {} THEN 0 ELSE Len(scan.sortedEntries[CHOOSE i \in at : TRUE].infos)

\* C6: get-blocks-in-area answers 'Area too large' without any bot.blockAt
\* lookup when the inclusive box volume exceeds 10000, and an accepted call
\* makes at most 10000 lookups.
C6_AreaCap ==
    scan.tool = "area" =>
        /\ BoxVolume(scan.args) > MAX_VOLUME => Rejected("Area too large")
        /\ Len(scan.lookups) <= MAX_VOLUME

\* C6 witness: a box of 26 x 20 x 20 = 10400 cells was refused unlooked.
C6_Witness ==
    /\ scan.tool = "area"
    /\ BoxVolume(scan.args) = 10400
    /\ Rejected("Area too large")

\* Each cell of the box is looked up exactly once.
EachCellOnce ==
    /\ Len(scan.lookups) = BoxVolume(scan.args)
    /\ {scan.lookups[i] : i \in 1..Len(scan.lookups)} = BoxCells(scan.args)

\* The listed types are distinct, and each count printed is the number of
\* cells of the box that hold a loaded block of that type and pass `passes`.
CountsAre(Passes(_)) ==
    /\ Cardinality(ReportedTypes) = Len(scan.sortedEntries)
    /\ \A name \in {"stone", "dirt", "air", "gold", ""} :
         ReportedCount(name) =
            Cardinality({c \in BoxCells(scan.args) :
                            blockAt(world, c) = name /\ Passes(name)})
    /\ ReportedTypes \subseteq {"stone", "dirt", "air"}

\* C7 (as claimed): within the cap every cell of the box is looked up
\* exactly once and the count printed for a type is the number of loaded
\* cells of that type; when filterType is given, only cells whose type
\* equals filterType are counted, so at most one type is listed.
C7_ExactCounts ==
    (scan.tool = "area" /\ BoxVolume(scan.args) <= MAX_VOLUME) =>
        /\ EachCellOnce
        /\ IF scan.args.filterType = Undefined
             THEN CountsAre(LAMBDA name : TRUE)
             ELSE /\ CountsAre(LAMBDA name : name = scan.args.filterType)
                  /\ Cardinality(ReportedTypes) <= 1

\* C7 (amended): as C7, for a filterType that is given and not the empty
\* string; an empty filterType filters nothing, like one left out.
C7_ExactCountsAmended ==
    (scan.tool = "area" /\ BoxVolume(scan.args) <= MAX_VOLUME) =>
        /\ EachCellOnce
        /\ IF ~Truthy(scan.args.filterType)
             THEN CountsAre(LAMBDA name : TRUE)
             ELSE /\ CountsAre(LAMBDA name : name = scan.args.filterType)
                  /\ Cardinality(ReportedTypes) <= 1

\* C7 witness: a filtered scan of a box of mixed types listed the one type
\* asked for, with more than one block of it.
C7_Witness ==
    /\ scan.tool = "area"
    /\ scan.args.filterType = "stone"
    /\ ReportedTypes = {"stone"}
    /\ ReportedCount("stone") >= 2
    /\ \E c \in BoxCells(scan.args) : blockAt(world, c) \notin {"stone", Null}

Cube(n) == n * n * n
Square(n) == n * n

\* C10 (as claimed): a radius above 32 is answered 'Radius too large'
\* without a lookup; an accepted radius r, also 0 or negative, costs at most
\* (2r+1)^3 lookups in get-blocks-in-radius and (2r+1)^2 in scan-layers.
C10_RadiusCap ==
    scan.tool \in {"radius", "layers"} =>
        LET r == scan.args.radius
        IN  /\ r > 32 => Rejected("Radius too large")
            /\ scan.tool = "radius" => Len(scan.lookups) <= Cube(2 * r + 1)
            /\ scan.tool = "layers" => Len(scan.lookups) <= Square(2 * r + 1)

\* C10 (amended): the same, with the bound of get-blocks-in-radius taken as
\* max(0, 2r+1)^3: a negative radius costs no lookup at all.
C10_RadiusCapAmended ==
    scan.tool \in {"radius", "layers"} =>
        LET r == scan.args.radius
        IN  /\ r > 32 => Rejected("Radius too large")
            /\ scan.tool = "radius" => Len(scan.lookups) <= Cube(Max(0, 2 * r + 1))
            /\ scan.tool = "layers" => Len(scan.lookups) <= Square(2 * r + 1)
            /\ r < 0 => scan.lookups = <<>>

\* C10 witness: get-blocks-in-radius refused radius 33 without a lookup.
C10_Witness ==
    /\ scan.tool = "radius"
    /\ scan.args.radius = 33
    /\ Rejected("Radius too large")

\* The set of positions in a sequence of lookups.
PositionsOf(lookups) == {lookups[i] : i \in 1..Len(lookups)}

\* The positions a scan looked up, as a set.
LookedUp == {scan.lookups[i] : i \in 1..Len(scan.lookups)}

\* C11: in the output of the three scan tools the block types are listed in
\* non-increasing order of their block count.
C11_TypesByCountDescending ==
    \A i, j \in 1..Len(scan.sortedEntries) :
        i < j => Len(scan.sortedEntries[i].infos) >= Len(scan.sortedEntries[j].infos)

\* C11 witness: a scan found three types, and the type found first is not
\* the most frequent, so the listing differs from the order of discovery.
C11_Witness ==
    /\ Len(scan.sortedEntries) = 3
    /\ scan.sortedEntries # scan.blockMap
    /\ Len(scan.sortedEntries[1].infos) > Len(scan.sortedEntries[3].infos)

\* The cells of the sphere of a get-blocks-in-radius call and of the disc of
\* a scan-layers call.
SphereCells(a) ==
    {<<a.x + d[1], a.y + d[2], a.z + d[3]>> :
        d \in {e \in (0 - a.radius..a.radius) \X (0 - a.radius..a.radius)
                        \X (0 - a.radius..a.radius) :
                 e[1] * e[1] + e[2] * e[2] + e[3] * e[3] <= a.radius * a.radius}}
DiscCells(a) ==
    {<<a.centerX + d[1], a.yLevel, a.centerZ + d[2]>> :
        d \in {e \in (0 - a.radius..a.radius) \X (0 - a.radius..a.radius) :
                 e[1] * e[1] + e[2] * e[2] <= a.radius * a.radius}}

\* A block name passes the filter of the call: no filter (left out or
\* empty), or the name asked for.
Matches(name) ==
    scan.args.filterType \in {Undefined, ""} \/ name = scan.args.filterType

\* The scan looked up exactly `cells`, each once, and the count printed for
\* each type is the number of loaded matching cells of that type among them.
CountsExactlyOver(cells) ==
    /\ LookedUp = cells
    /\ Len(scan.lookups) = Cardinality(cells)
    /\ Cardinality(ReportedTypes) = Len(scan.sortedEntries)
    /\ ReportedTypes \subseteq {"stone", "dirt", "air"}
    /\ \A name \in {"stone", "dirt", "air", "gold", ""} :
         ReportedCount(name) =
            Cardinality({c \in cells : blockAt(world, c) = name /\ Matches(name)})

\* C15: for an integer centre and radius 0 <= r <= 32, get-blocks-in-radius
\* counts exactly the loaded cells at offsets with dx^2+dy^2+dz^2 <= r^2 and
\* scan-layers exactly those at yLevel with dx^2+dz^2 <= r^2: none outside,
\* none skipped, none twice.
C15_ExactSphereAndDisc ==
    /\ (scan.tool = "radius" /\ scan.args.radius \in 0..MAX_RADIUS) =>
            CountsExactlyOver(SphereCells(scan.args))
    /\ (scan.tool = "layers" /\ scan.args.radius \in 0..LAYER_MAX_RADIUS) =>
            CountsExactlyOver(DiscCells(scan.args))

\* C15 witness: a sphere of radius 3 around (1, -2, 3) was scanned: the
\* cell at offset (3, 0, 0) was looked up and the cube's corner was not.
C15_Witness ==
    /\ scan.tool = "radius"
    /\ scan.args.radius = 3 /\ scan.args.x = 1
    /\ <<4, -2, 3>> \in LookedUp
    /\ <<4, 1, 6>> \notin LookedUp
    /\ Len(scan.sortedEntries) >= 2

\* The loaded blocks that pass the filter, in the order the scan met them.
MatchingInScanOrder ==
    SelectSeq(scan.lookups,
              LAMBDA p : blockAt(world, p) # Null /\ Matches(blockAt(world, p)))

\* The detailed list is made of the first blocks of MatchingInScanOrder
\* (get-blocks-in-area prints them in that order, the other two by distance).
DetailedAreTheFirstMatching ==
    LET n == Len(scan.detailedBlocks)
        positions == [i \in 1..n |-> scan.detailedBlocks[i].position]
    IN  /\ n <= Len(MatchingInScanOrder)
        /\ PositionsOf(positions) = PositionsOf(SubSeq(MatchingInScanOrder, 1, n))
        /\ Cardinality(PositionsOf(positions)) = n
        /\ scan.tool = "area" => positions = SubSeq(MatchingInScanOrder, 1, n)

\* The per-type counts are those of all matching blocks, whatever maxBlocks.
CountsIgnoreMaxBlocks ==
    \A name \in {"stone", "dirt", "air", "gold", ""} :
        ReportedCount(name) =
            Len(SelectSeq(MatchingInScanOrder, LAMBDA p : blockAt(world, p) = name))

C17_DetailedByDistance ==
    scan.tool \in {"radius", "layers"} =>
        \A i, j \in 1..Len(scan.detailedBlocks) :
            i < j => scan.detailedBlocks[i].distSq <= scan.detailedBlocks[j].distSq

\* C17 witness: the centre block is listed first although a block listed
\* after it was scanned before it.
C17_Witness ==
    /\ scan.tool = "radius"
    /\ scan.args.includeProperties
    /\ Len(scan.detailedBlocks) >= 3
    /\ scan.detailedBlocks[1].distSq = 0
    /\ \E i \in 2..Len(scan.detailedBlocks) :
          scan.detailedBlocks[i].position[1] < scan.args.x

\* The area call with corners c1 and c2 and the options of a.
WithCorners(a, c1, c2) ==
    [a EXCEPT !.x1 = c1[1], !.y1 = c1[2], !.z1 = c1[3],
              !.x2 = c2[1], !.y2 = c2[2], !.z2 = c2[3]]

\* An area call's corners swapped, or swapped in one coordinate only.
CornerSwaps(a) ==
    { WithCorners(a, <<a.x2, a.y2, a.z2>>, <<a.x1, a.y1, a.z1>>),
      WithCorners(a, <<a.x2, a.y1, a.z1>>, <<a.x1, a.y2, a.z2>>),
      WithCorners(a, <<a.x1, a.y2, a.z1>>, <<a.x2, a.y1, a.z2>>),
      WithCorners(a, <<a.x1, a.y1, a.z2>>, <<a.x2, a.y2, a.z1>>) }

\* Type |-> count, as a set of pairs.
CountsOf(entries) == {<<entries[i].name, Len(entries[i].infos)>> : i \in 1..Len(entries)}

\* C18: get-blocks-in-area does not depend on the order of its corners: in
\* the same world, the call with the corners swapped, or swapped in x, y or
\* z only, gives the same accept/reject decision, looks up the same set of
\* cells and counts the same blocks per type.
C18_CornerOrderIndependent ==
    scan.tool = "area" =>
        \A b \in CornerSwaps(scan.args) :
            LET other == getBlocksInArea(world, b)
            IN  /\ other.response = scan.response
                /\ PositionsOf(other.lookups) = LookedUp
                /\ Len(other.lookups) = Len(scan.lookups)
                /\ CountsOf(other.sortedEntries) = CountsOf(scan.sortedEntries)

\* C18 witness: a call whose first corner is the larger one in x and the
\* smaller one in y scanned a box of several cells and several types.
C18_Witness ==
    /\ scan.tool = "area"
    /\ scan.args.x1 > scan.args.x2 /\ scan.args.y1 < scan.args.y2
    /\ Len(scan.lookups) >= 4
    /\ Len(scan.sortedEntries) >= 2

(***************************************************************************)
(* Claims about the process                                                *)
(***************************************************************************)

\* C9 (as claimed): once the bot is disconnected (kicked, or its connection
\* ended) the process terminates: in no reachable state is the connection
\* gone while the process runs on and has answered a tool call since.
C9_DisconnectTerminates ==
    ~(proc.connection = "ended" /\ proc.process = "running"
        /\ proc.answeredOffline > 0)

\* C9 (amended): a kick only makes the handler call bot.quit(), and a lost
\* connection has no handler; the process exits only when stdin ends
\* (code 0, after bot.quit()) or startup fails (code 1, before any tool
\* call is answered).
C9_ExitOnlyOnStdinEnd ==
    /\ proc.kicked => proc.quitCalls >= 1 /\ proc.connection = "ended"
    /\ proc.process = "exited" =>
        \/ proc.exitCode = 0 /\ proc.stdin = "ended" /\ proc.quitCalls >= 1
        \/ proc.exitCode = 1 /\ proc.stdin = "open" /\ proc.answered = 0

\* C9 witness: the bot was kicked, the process answered tool calls with the
\* connection gone, and exited only when stdin ended.
C9_Witness ==
    /\ proc.kicked
    /\ proc.answeredOffline > 0
    /\ proc.process = "exited" /\ proc.exitCode = 0

(***************************************************************************)
(* Claims about the tool registry                                          *)
(***************************************************************************)

\* C12 (as claimed): every command of the README's 'Available Commands'
\* section, place-block, dig-block, get-block-info and find-block among
\* them, is a registered tool, so a call of that name goes to a handler.
C12_ReadmeCommandsRegistered ==
    \A i \in 1..Len(toolCalls) :
        toolCalls[i].name \in ReadmeCommands =>
            /\ \E k \in 1..Len(registeredTools) :
                  registeredTools[k] = toolCalls[i].name
            /\ toolCalls[i].to = "handler"

InitAll ==
    InitChat /\ InitBot /\ InitFly /\ InitMove /\ InitSendChat /\ InitScan
    /\ InitProc /\ InitTools

\* The bot's calls, flyTo aside, return normally.
Init == InitAll /\ botFaulty = FALSE

\* Any call on the bot may throw.
InitFaulty == InitAll /\ botFaulty = TRUE

\* With a faulty bot, one fly-to call, one move-in-direction call and any
\* number of send-chat calls are made, in any interleaving.
NextFaulty ==
    \/ \E dest \in Destinations, hasCreative \in BOOLEAN : FlyTo(1, dest, hasCreative)
    \/ \E how \in {"resolved", "rejected"} : FlightSettles(1, how)
    \/ FlyTimerFires(1)
    \/ RunReaction
    \/ RunResume
    \/ \E d \in Direction, ms \in Durations : MoveInDirection(1, d, ms)
    \/ MoveTimerFires(1)
    \/ SendChat

SpecChat == Init /\ [][NextChat]_vars

SpecFly == Init /\ [][NextFly]_vars

SpecScan == Init /\ [][NextScan]_vars

SpecProc == Init /\ [][NextProc]_vars

SpecTools == Init /\ [][NextTools]_vars

SpecMove == Init /\ [][NextMove]_vars

SpecFaulty == InitFaulty /\ [][NextFaulty]_vars

\* The event loop runs every queued reaction, and a timer that is armed
\* fires once its delay is over; flyTo need never settle.
FairSpecFly ==
    /\ SpecFly
    /\ WF_vars(RunReaction)
    /\ WF_vars(RunResume)
    /\ \A c \in FlyCalls : WF_vars(FlyTimerFires(c))

====
